---- MODULE Spec2Model ----
(***************************************************************************)
(* Payment & Ledger subsystem of waqfwise: gateway adapters, the ledger    *)
(* engine, the payment repository and the donation orchestrator that       *)
(* drives them.                                                            *)
(***************************************************************************)
EXTENDS Integers, Sequences, FiniteSets, TLC

VARIABLES
  donations,     \* table donations: row id -> row
  ledgers,       \* table ledgers, in insertion order
  fraud_checks,  \* table fraud_checks, in insertion order
  proc,          \* per request handler: position and locals
  transitions,   \* history: every status update applied, in order
  calls,         \* history: every RecordDonation call and its result
  delivered,     \* history: every notification handed to HandleNotification
  pure,          \* last call of an adapter, fee function or query
  provider,      \* per gateway and transaction: the provider's status
  cancelled,     \* history: transactions whose CancelTransaction returned nil
  kafka,         \* the consumer group's view of one partition
  limiter,       \* Redis rate-limit counters and the callers of Allow
  users          \* one row of table users, its MFA columns, and its callers

\* The payment tables and handlers
paymentVars ==
  <<donations, ledgers, fraud_checks, proc, transitions, calls, delivered>>

\* The state outside the payment tables and the last call
\* The state of the services outside the payment subsystem
serviceVars == <<kafka, limiter, users>>

otherVars == <<provider, cancelled, serviceVars>>

vars == <<paymentVars, pure, otherVars>>

(***************************************************************************)
(* Bounds of the model                                                     *)
(***************************************************************************)
MaxDonations == 2
MaxOrders == 1
MaxDeliveries == 2
MaxPosts == 2
MaxUpdates == 2
MaxMessages == 5
MaxSessions == 3
MaxCount == 3
MaxSecrets == 3

Procs == {"h1", "h2"}

(***************************************************************************)
(* internal/shared/domain/payment.go                                       *)
(***************************************************************************)
PaymentStatusPending == "pending"
PaymentStatusProcessing == "processing"
PaymentStatusSuccess == "success"
PaymentStatusFailed == "failed"
PaymentStatusRefunded == "refunded"
PaymentStatusCancelled == "cancelled"

PaymentGatewayMidtrans == "midtrans"
PaymentGatewayXendit == "xendit"
PaymentGatewayManual == "manual"

\* pkg/payment: the adapters' status vocabulary
StatusPending == "pending"
StatusSuccess == "success"
StatusFailed == "failed"
StatusCancelled == "cancelled"
StatusExpired == "expired"

\* The statuses of the donation state machine (domain.PaymentStatus)
DomainPaymentStatus ==
  {PaymentStatusPending, PaymentStatusProcessing, PaymentStatusSuccess,
   PaymentStatusFailed, PaymentStatusRefunded, PaymentStatusCancelled}

\* The statuses an adapter reports (payment.PaymentStatus)
AdapterStatus ==
  {StatusPending, StatusSuccess, StatusFailed, StatusCancelled, StatusExpired}

\* Every value a status column can hold: the domain constants plus the
\* adapters' "expired", which the orchestrator stores as it is reported.
PaymentStatus ==
  {PaymentStatusPending, PaymentStatusProcessing, PaymentStatusSuccess,
   PaymentStatusFailed, PaymentStatusRefunded, PaymentStatusCancelled,
   StatusExpired}

TerminalStatus ==
  {PaymentStatusSuccess, PaymentStatusFailed, PaymentStatusCancelled,
   StatusExpired, PaymentStatusRefunded}

(***************************************************************************)
(* Go arithmetic: int64 division truncates toward zero.                    *)
(***************************************************************************)
GoDiv(a, b) == IF a >= 0 THEN a \div b ELSE -((-a) \div b)

(***************************************************************************)
(* LedgerManager.calculateGatewayFee                                       *)
(***************************************************************************)
calculateGatewayFee_DivideFirst(gateway, amount) ==
  CASE gateway = PaymentGatewayMidtrans -> GoDiv(amount, 100) * 2 + 2000
    [] gateway = PaymentGatewayXendit -> GoDiv(amount, 1000) * 29 + 2000
    [] OTHER -> 0

calculateGatewayFee(gateway, amount) ==
  CASE gateway = PaymentGatewayMidtrans -> GoDiv(amount * 2, 100) + 2000
    [] gateway = PaymentGatewayXendit -> GoDiv(amount * 29, 1000) + 2000
    [] OTHER -> 0

(***************************************************************************)
(* Gateway adapters: status mapping tables                                 *)
(***************************************************************************)
mapMidtransStatus_DefaultSuccess(status) ==
  CASE status \in {"capture", "settlement"} -> StatusSuccess
    [] status = "pending" -> StatusPending
    [] status \in {"deny", "cancel"} -> StatusCancelled
    [] status = "expire" -> StatusExpired
    [] OTHER -> StatusSuccess

\* cancel is read as a success code
mapMidtransStatus_CancelSuccess(status) ==
  CASE status \in {"capture", "settlement", "cancel"} -> StatusSuccess
    [] status = "pending" -> StatusPending
    [] status \in {"deny"} -> StatusCancelled
    [] status = "expire" -> StatusExpired
    [] OTHER -> StatusFailed

mapMidtransStatus(status) ==
  CASE status \in {"capture", "settlement"} -> StatusSuccess
    [] status = "pending" -> StatusPending
    [] status \in {"deny", "cancel"} -> StatusCancelled
    [] status = "expire" -> StatusExpired
    [] OTHER -> StatusFailed

mapXenditStatus(status) ==
  CASE status \in {"PAID", "SETTLED"} -> StatusSuccess
    [] status = "PENDING" -> StatusPending
    [] status = "EXPIRED" -> StatusExpired
    [] status = "FAILED" -> StatusFailed
    [] OTHER -> StatusPending

\* The keys of each adapter's mapping table (the explicit cases of the switch)
MidtransTable == {"capture", "settlement", "pending", "deny", "cancel", "expire"}
XenditTable == {"PAID", "SETTLED", "PENDING", "EXPIRED", "FAILED"}

(***************************************************************************)
(* Gateway adapters: VerifyNotification.                                   *)
(* A payload is [order_id, status, signature, has_id, paid_at]:            *)
(*   status     the provider's status string ("" when the key is absent:   *)
(*              the failed type assertion leaves the zero value)           *)
(*   signature  "valid", "invalid" or "none"                               *)
(*   has_id     whether the provider's transaction id key is a string      *)
(*   paid_at    whether a parseable paid_at is present (Xendit)            *)
(* The result is [outcome, Status, OrderID, PaidAt]; outcome is            *)
(* "notification", "error" or "panic" (failed unchecked type assertion).   *)
(***************************************************************************)
NoNotification(outcome) ==
  [outcome |-> outcome, Status |-> "", OrderID |-> 0, PaidAt |-> FALSE]

MidtransVerifyNotification(payload) ==
  LET status == mapMidtransStatus(payload.status) IN
  IF ~payload.has_id THEN NoNotification("panic")
  ELSE [outcome |-> "notification", Status |-> status,
        OrderID |-> payload.order_id, PaidAt |-> (status = StatusSuccess)]

XenditVerifyNotification(payload) ==
  LET paymentStatus == mapXenditStatus(payload.status) IN
  IF ~payload.has_id THEN NoNotification("panic")
  ELSE [outcome |-> "notification", Status |-> paymentStatus,
        OrderID |-> payload.order_id,
        PaidAt |-> (paymentStatus = StatusSuccess /\ payload.paid_at)]

VerifyNotification(gateway, payload) ==
  IF gateway = PaymentGatewayMidtrans THEN MidtransVerifyNotification(payload)
  ELSE XenditVerifyNotification(payload)

(***************************************************************************)
(* Adapter and fee functions applied to enumerated inputs.                 *)
(* pure holds the last call: its operation, inputs and result.             *)
(***************************************************************************)
ProviderStatuses ==
  MidtransTable \cup XenditTable \cup
  {"", "authorize", "refund", "chargeback", "failure", "paid", "Settlement",
   "success", "SUCCESS", "VOIDED"}

Signatures == {"valid", "invalid", "none"}

Payloads ==
  [order_id : {1}, status : ProviderStatuses, signature : Signatures,
   has_id : BOOLEAN, paid_at : BOOLEAN]

AdapterGateways == {PaymentGatewayMidtrans, PaymentGatewayXendit}

FeeGateways ==
  {PaymentGatewayMidtrans, PaymentGatewayXendit, PaymentGatewayManual, "bank"}

FeeAmounts ==
  {1, 34, 35, 49, 50, 99, 100, 999, 1000, 12345, 50000, 999999, 1000000,
   1000001, 74000000}

NoPayload ==
  [order_id |-> 0, status |-> "", signature |-> "none", has_id |-> FALSE,
   paid_at |-> FALSE]

\* PaymentResponse of GetTransaction: outcome is "response" or "error"
NoResponse(outcome) == [outcome |-> outcome, Status |-> "", PaidAt |-> FALSE]

\* no fraud check was returned
NoCheck ==
  [donation_id |-> 0, risk_score |-> 0, risk_level |-> "", flags |-> <<>>,
   is_blocked |-> FALSE, reason |-> ""]

NoCall ==
  [op |-> "none", gateway |-> "", payload |-> NoPayload, amount |-> 0,
   result |-> NoNotification("none"), gatewayFee |-> 0, netAmount |-> 0,
   email |-> <<>>, check |-> NoCheck,
   campaign |-> 0, limit |-> 0, offset |-> 0, rows |-> <<>>, total |-> 0,
   velocity |-> FALSE, transactionID |-> "", response |-> NoResponse("none"),
   was_cancelled |-> FALSE]

InitPure == pure = NoCall

CallVerifyNotification ==
  \E gateway \in AdapterGateways, payload \in Payloads :
    /\ pure' = [NoCall EXCEPT !.op = "VerifyNotification",
                              !.gateway = gateway, !.payload = payload,
                              !.result = VerifyNotification(gateway, payload)]
    /\ UNCHANGED <<paymentVars, otherVars>>

\* RecordDonation lines 24-26: the fee and the net amount of a donation
CallCalculateGatewayFee ==
  \E gateway \in FeeGateways, amount \in FeeAmounts :
    LET gatewayFee == calculateGatewayFee(gateway, amount) IN
    /\ pure' = [NoCall EXCEPT !.op = "calculateGatewayFee",
                              !.gateway = gateway, !.amount = amount,
                              !.gatewayFee = gatewayFee,
                              !.netAmount = amount - gatewayFee]
    /\ UNCHANGED <<paymentVars, otherVars>>

(***************************************************************************)
(* Fraud detector                                                          *)
(***************************************************************************)
\* strings.Contains over strings held as sequences of characters
Contains(s, substr) ==
  \E i \in 1..(Len(s) - Len(substr) + 1) :
    SubSeq(s, i, i + Len(substr) - 1) = substr

\* the high-risk branch is taken from 40 on
riskVerdict_HighFrom40(riskScore) ==
  IF riskScore >= 40
  THEN [risk_level |-> "high", is_blocked |-> TRUE,
        reason |-> "High risk transaction blocked"]
  ELSE IF riskScore >= 40
  THEN [risk_level |-> "medium", is_blocked |-> FALSE,
        reason |-> "Medium risk - requires manual review"]
  ELSE [risk_level |-> "low", is_blocked |-> FALSE, reason |-> ""]

\* CheckTransaction, "Determine risk level"
riskVerdict(riskScore) ==
  IF riskScore >= 70
  THEN [risk_level |-> "high", is_blocked |-> TRUE,
        reason |-> "High risk transaction blocked"]
  ELSE IF riskScore >= 40
  THEN [risk_level |-> "medium", is_blocked |-> FALSE,
        reason |-> "Medium risk - requires manual review"]
  ELSE [risk_level |-> "low", is_blocked |-> FALSE, reason |-> ""]

CheckTransaction(donation) ==
  LET highAmount == donation.amount > 100000000
      suspiciousEmail ==
        \/ Contains(donation.donor_email, <<"t", "e", "m", "p">>)
        \/ Contains(donation.donor_email,
                    <<"d", "i", "s", "p", "o", "s", "a", "b", "l", "e">>)
      riskScore == (IF highAmount THEN 30 ELSE 0)
                   + (IF suspiciousEmail THEN 20 ELSE 0)
      flags == (IF highAmount THEN <<"high_amount">> ELSE <<>>)
               \o (IF suspiciousEmail THEN <<"suspicious_email">> ELSE <<>>)
      verdict == riskVerdict(riskScore)
  IN [donation_id |-> donation.id,
      risk_score |-> riskScore,
      risk_level |-> verdict.risk_level,
      flags |-> flags,
      is_blocked |-> verdict.is_blocked,
      reason |-> verdict.reason]

(***************************************************************************)
(* Payment repository: reads                                               *)
(***************************************************************************)
NoDonation ==
  [id |-> 0, campaign_id |-> 0, user_id |-> 0, amount |-> 0,
   status |-> "", payment_gateway |-> "", transaction_id |-> 0,
   donor_email |-> <<>>, paid_at |-> FALSE]

\* the lookup has no WHERE clause: any row answers it
FindDonationByTransactionID_AnyRow(txID) ==
  IF \E id \in DOMAIN donations : TRUE
  THEN donations[CHOOSE id \in DOMAIN donations : TRUE]
  ELSE NoDonation

\* SELECT ... FROM donations WHERE transaction_id = $1; NoDonation stands
\* for sql.ErrNoRows (ErrCodeNotFound)
FindDonationByTransactionID(txID) ==
  IF \E id \in DOMAIN donations : donations[id].transaction_id = txID
  THEN donations[CHOOSE id \in DOMAIN donations :
                   donations[id].transaction_id = txID]
  ELSE NoDonation

FindDonationByID(id) ==
  IF id \in DOMAIN donations THEN donations[id] ELSE NoDonation

RECURSIVE SumSigned(_, _)
SumSigned(rows, campaignID) ==
  IF rows = <<>> THEN 0
  ELSE LET l == Head(rows) IN
       (IF donations[l.donation_id].campaign_id = campaignID
        THEN (IF l.account_type = "credit" THEN l.amount ELSE -l.amount)
        ELSE 0)
       + SumSigned(Tail(rows), campaignID)

\* SELECT COALESCE(SUM(CASE WHEN account_type = 'credit' THEN amount
\*                     ELSE -amount END), 0)
\* FROM ledgers l JOIN donations d ON l.donation_id = d.id
\* WHERE d.campaign_id = $1
GetCampaignBalance(campaignID) == SumSigned(ledgers, campaignID)

\* The selected rows among ids 1..n, newest first (ORDER BY
\* created_at DESC: rows are created in id order)
RECURSIVE NewestFirst(_, _)
NewestFirst(n, selected) ==
  IF n = 0 THEN <<>>
  ELSE (IF n \in selected THEN <<donations[n]>> ELSE <<>>)
       \o NewestFirst(n - 1, selected)

\* LIMIT $3 OFFSET $4
LimitOffset(rows, limit, offset) ==
  SubSeq(rows, offset + 1,
         IF offset + limit < Len(rows) THEN offset + limit ELSE Len(rows))

\* the count query has no status condition
GetDonationsByCampaign_CountAll(campaignID, limit, offset) ==
  LET Counted == {id \in DOMAIN donations :
                    donations[id].campaign_id = campaignID}
      Listed == {id \in DOMAIN donations :
                   /\ donations[id].campaign_id = campaignID
                   /\ donations[id].status = PaymentStatusSuccess}
  IN [rows |-> LimitOffset(NewestFirst(Len(donations), Listed), limit, offset),
      total |-> Len(NewestFirst(Len(donations), Counted))]

\* SELECT COUNT(*) FROM donations WHERE campaign_id = $1 AND status = $2;
\* SELECT ... FROM donations WHERE campaign_id = $1 AND status = $2
\* ORDER BY created_at DESC LIMIT $3 OFFSET $4, with $2 = success
GetDonationsByCampaign(campaignID, limit, offset) ==
  LET Counted == {id \in DOMAIN donations :
                    /\ donations[id].campaign_id = campaignID
                    /\ donations[id].status = PaymentStatusSuccess}
      Listed == {id \in DOMAIN donations :
                   /\ donations[id].campaign_id = campaignID
                   /\ donations[id].status = PaymentStatusSuccess}
  IN [rows |-> LimitOffset(NewestFirst(Len(donations), Listed), limit, offset),
      total |-> Len(NewestFirst(Len(donations), Counted))]

(***************************************************************************)
(* Payment repository: writes                                              *)
(***************************************************************************)
\* the update touches updated_at only
UpdateDonationStatus_StatusNotWritten(id, status) ==
  IF id \in DOMAIN donations
  THEN /\ UNCHANGED donations
       /\ transitions' =
            Append(transitions,
                   [id |-> id, from |-> donations[id].status,
                    to |-> donations[id].status])
  ELSE UNCHANGED <<donations, transitions>>

\* the update also clears the amount
UpdateDonationStatus_AmountCleared(id, status) ==
  IF id \in DOMAIN donations
  THEN /\ donations' = [donations EXCEPT ![id].status = status,
                                         ![id].amount = 0]
       /\ transitions' =
            Append(transitions,
                   [id |-> id, from |-> donations[id].status, to |-> status])
  ELSE UNCHANGED <<donations, transitions>>

\* UPDATE donations SET status = $1, updated_at = $2 WHERE id = $3
UpdateDonationStatus(id, status) ==
  IF id \in DOMAIN donations
  THEN /\ donations' = [donations EXCEPT ![id].status = status]
       /\ transitions' =
            Append(transitions,
                   [id |-> id, from |-> donations[id].status, to |-> status])
  ELSE UNCHANGED <<donations, transitions>>

\* INSERT INTO ledgers (...) VALUES (...)
CreateLedgerEntry(entry) == ledgers' = Append(ledgers, entry)

\* INSERT INTO fraud_checks (...) VALUES (...)
CreateFraudCheck(check) == fraud_checks' = Append(fraud_checks, check)

(***************************************************************************)
(* Inputs                                                                  *)
(***************************************************************************)
EmailPlain == <<"a", "n", "a", "@", "x", ".", "i", "d">>
EmailTemp == <<"t", "e", "m", "p", "@", "x", ".", "i", "d">>
EmailDisposable ==
  <<"d", "i", "s", "p", "o", "s", "a", "b", "l", "e", "@", "x", ".", "i", "d">>

FraudAmounts == {50000, 100000000, 100000001, 150000000}
FraudEmails == {EmailPlain, EmailTemp, EmailDisposable}

\* A caller assesses a donation it holds; velocity tells whether the donor
\* made many recent small transactions, which CheckTransaction does not
\* look up (check 3 is a TODO)
CallCheckTransaction ==
  \E amount \in FraudAmounts, email \in FraudEmails, velocity \in BOOLEAN :
    LET donation == [NoDonation EXCEPT !.id = 1, !.amount = amount,
                                       !.donor_email = email]
    IN /\ pure' = [NoCall EXCEPT !.op = "CheckTransaction",
                                 !.amount = amount, !.email = email,
                                 !.velocity = velocity,
                                 !.check = CheckTransaction(donation)]
       /\ UNCHANGED <<paymentVars, otherVars>>

DonationRequests ==
  {[campaign_id |-> 1, user_id |-> 1, amount |-> 1000000,
    payment_gateway |-> PaymentGatewayMidtrans, donor_email |-> EmailPlain],
   [campaign_id |-> 2, user_id |-> 2, amount |-> 50000,
    payment_gateway |-> PaymentGatewayManual, donor_email |-> EmailTemp]}

\* The transaction reference given to the n-th donation
TxRef(n) == 100 + n

WebhookStatuses(gateway) ==
  IF gateway = PaymentGatewayMidtrans
  THEN {"settlement", "cancel", "pending"}
  ELSE {"PAID", "EXPIRED"}

WebhookPayloads(gateway) ==
  [order_id : {TxRef(n) : n \in 1..(MaxOrders + 1)},
   status : WebhookStatuses(gateway), signature : {"none"},
   has_id : {TRUE}, paid_at : {TRUE}]

(***************************************************************************)
(* Request handlers                                                        *)
(***************************************************************************)
TransactionIDs == {"trx-1", "trx-2"}

\* No transaction was created at either provider
InitProvider ==
  /\ provider = [g \in AdapterGateways |-> [t \in TransactionIDs |-> "none"]]
  /\ cancelled = {}

\* MidtransGateway.CreateTransaction: the Snap call opens the transaction
\* at the provider unless the order already has one; XenditGateway's is a
\* placeholder that calls no API
CreateTransaction(gateway, transactionID) ==
  IF gateway = PaymentGatewayMidtrans /\ provider[gateway][transactionID] = "none"
  THEN provider' = [provider EXCEPT ![gateway][transactionID] = "pending"]
  ELSE UNCHANGED provider

\* The provider moves a transaction on: the customer pays by card (capture,
\* settled later) or by transfer (settlement), the payment is denied, or
\* the transaction expires
ProviderAdvances ==
  \E transactionID \in TransactionIDs,
     next \in {"capture", "settlement", "deny", "expire"} :
    LET status == provider[PaymentGatewayMidtrans][transactionID] IN
    /\ \/ status = "pending"
       \/ status = "capture" /\ next = "settlement"
    /\ provider' =
         [provider EXCEPT ![PaymentGatewayMidtrans][transactionID] = next]
    /\ UNCHANGED <<paymentVars, pure, cancelled, serviceVars>>

\* coreClient.CancelTransaction succeeds on a transaction that is pending or
\* captured and fails on every other one
MidtransCancelTransaction(transactionID) ==
  IF provider[PaymentGatewayMidtrans][transactionID] \in {"pending", "capture"}
  THEN /\ provider' =
            [provider EXCEPT ![PaymentGatewayMidtrans][transactionID] = "cancel"]
       /\ cancelled' =
            cancelled \cup {<<PaymentGatewayMidtrans, transactionID>>}
  ELSE UNCHANGED <<provider, cancelled>>

\* placeholder: logs and returns nil
XenditCancelTransaction(transactionID) ==
  /\ cancelled' = cancelled \cup {<<PaymentGatewayXendit, transactionID>>}
  /\ UNCHANGED provider

MidtransGetTransaction(transactionID) ==
  IF provider[PaymentGatewayMidtrans][transactionID] = "none"
  THEN NoResponse("error")
  ELSE LET status ==
             mapMidtransStatus(provider[PaymentGatewayMidtrans][transactionID])
       IN [outcome |-> "response", Status |-> status,
           PaidAt |-> (status = StatusSuccess)]

\* placeholder: always pending
XenditGetTransaction(transactionID) ==
  [outcome |-> "response", Status |-> StatusPending, PaidAt |-> FALSE]

GetTransaction(gateway, transactionID) ==
  IF gateway = PaymentGatewayMidtrans
  THEN MidtransGetTransaction(transactionID)
  ELSE XenditGetTransaction(transactionID)

CallCreateTransaction ==
  \E gateway \in AdapterGateways, transactionID \in TransactionIDs :
    /\ CreateTransaction(gateway, transactionID)
    /\ UNCHANGED <<paymentVars, pure, cancelled, serviceVars>>

CallCancelTransaction ==
  \E gateway \in AdapterGateways, transactionID \in TransactionIDs :
    /\ IF gateway = PaymentGatewayMidtrans
       THEN MidtransCancelTransaction(transactionID)
       ELSE XenditCancelTransaction(transactionID)
    /\ UNCHANGED <<paymentVars, pure, serviceVars>>

CallGetTransaction ==
  \E gateway \in AdapterGateways, transactionID \in TransactionIDs :
    /\ pure' = [NoCall EXCEPT
                  !.op = "GetTransaction", !.gateway = gateway,
                  !.transactionID = transactionID,
                  !.response = GetTransaction(gateway, transactionID),
                  !.was_cancelled = (<<gateway, transactionID>> \in cancelled)]
    /\ UNCHANGED <<paymentVars, provider, cancelled, serviceVars>>

(***************************************************************************)
(* pkg/queue: the consumer group handler on one partition of MaxMessages   *)
(* messages.  position is the offset of the next message claim.Messages()  *)
(* delivers in this session; marked is the offset the group resumes from   *)
(* (session.MarkMessage marks message.Offset + 1 and never moves back);    *)
(* handled holds the offsets whose handler returned nil.                   *)
(***************************************************************************)
InitKafka ==
  kafka = [position |-> 0, marked |-> 0, handled |-> {}, sessions |-> 1]

KafkaFrame ==
  UNCHANGED <<paymentVars, pure, provider, cancelled, limiter, users>>

\* session.MarkMessage(message, "")
MarkMessage(offset) ==
  IF offset + 1 > kafka.marked THEN offset + 1 ELSE kafka.marked

\* ConsumeClaim: a message is received and the handler returns nil
ConsumeClaimOk ==
  /\ kafka.position < MaxMessages
  /\ kafka' = [kafka EXCEPT !.position = kafka.position + 1,
                            !.marked = MarkMessage(kafka.position),
                            !.handled = kafka.handled \cup {kafka.position}]
  /\ KafkaFrame

\* ConsumeClaim: a message is received and the handler returns an error:
\* logged, not marked, continue
ConsumeClaimError ==
  /\ kafka.position < MaxMessages
  /\ kafka' = [kafka EXCEPT !.position = kafka.position + 1]
  /\ KafkaFrame

\* The session ends (rebalance or restart): ConsumeClaim returns, Consume
\* loops and the next session resumes from the marked offset
Consume ==
  /\ kafka.sessions < MaxSessions
  /\ kafka' = [kafka EXCEPT !.position = kafka.marked,
                            !.sessions = kafka.sessions + 1]
  /\ KafkaFrame

(***************************************************************************)
(* pkg/cache: RateLimiter over Redis.  For each key, count is the counter  *)
(* (0: the key does not exist) and expires tells whether the key carries   *)
(* a time to live; pc is the position of each caller of Allow / AllowN,    *)
(* and key the key it works on.                                            *)
(***************************************************************************)
LimiterKeys == {"ip1", "ip2"}

\* The n of the AllowN calls
BatchSizes == {2}

InitLimiter ==
  limiter = [count |-> [k \in LimiterKeys |-> 0],
             expires |-> [k \in LimiterKeys |-> FALSE],
             pc |-> [p \in Procs |-> "idle"],
             key |-> [p \in Procs |-> "ip1"]]

LimiterFrame ==
  UNCHANGED <<paymentVars, pure, provider, cancelled, kafka, users>>

\* redis.IncrementBy: INCRBY creates a missing key, without a time to live
IncrementBy(key, n) == limiter.count[key] + n

\* Allow (n = 1) and AllowN, up to the increment: the caller goes on to
\* Expire when the counter it got is its own increment, and returns else
AllowIncrement(p, key, n) ==
  /\ limiter.pc[p] = "idle"
  /\ IncrementBy(key, n) <= MaxCount
  /\ limiter' =
       [limiter EXCEPT !.count[key] = IncrementBy(key, n),
                       !.key[p] = key,
                       !.pc[p] = IF IncrementBy(key, n) = n THEN "expire"
                                 ELSE "idle"]
  /\ LimiterFrame

Allow(p) == \E key \in LimiterKeys : AllowIncrement(p, key, 1)

AllowN(p) ==
  \E key \in LimiterKeys, n \in BatchSizes : AllowIncrement(p, key, n)

\* redis.Expire succeeds: an existing key gets the window as time to live
Expire(p) ==
  /\ limiter.pc[p] = "expire"
  /\ limiter' =
       [limiter EXCEPT !.expires[limiter.key[p]] =
                          (limiter.count[limiter.key[p]] > 0),
                       !.pc[p] = "idle"]
  /\ LimiterFrame

\* redis.Expire returns an error (or the caller is cancelled before it):
\* Allow returns the error and the key stays as it is
ExpireFails(p) ==
  /\ limiter.pc[p] = "expire"
  /\ limiter' = [limiter EXCEPT !.pc[p] = "idle"]
  /\ LimiterFrame

\* The window elapses for a key that carries a time to live: Redis drops it
WindowElapses ==
  \E key \in LimiterKeys :
    /\ limiter.expires[key]
    /\ limiter' = [limiter EXCEPT !.count[key] = 0, !.expires[key] = FALSE]
    /\ LimiterFrame

(***************************************************************************)
(* Auth service: MFA setup, enabling, disabling and the check at login     *)
(***************************************************************************)

\* mfa_secret NULL, read by FindByID as the empty string
NoSecret == 0

\* The secrets SetupMFA draws: 20 random bytes, each draw a new value
Secrets == 1..MaxSecrets

\* The codes a caller can send: the code of a secret, or a wrong one (0)
Codes == 0..MaxSecrets

\* totp.Validate(code, secret): the code is the current one of the secret
TotpValidate(code, secret) ==
  /\ code # 0
  /\ secret # NoSecret
  /\ code = secret

\* A user registered without MFA; no call has been made
InitUsers ==
  users = [mfa_secret |-> NoSecret,
           mfa_enabled |-> FALSE,
           generated |-> 0,
           confirmed |-> {},
           validated |-> [p \in Procs |-> NoSecret],
           enable_error |-> "",
           login |-> [checked |-> NoSecret, error |-> "none"]]

AuthFrame ==
  UNCHANGED <<paymentVars, pure, provider, cancelled, kafka, limiter>>

\* repository.SetMFASecret: UPDATE users SET mfa_secret = $1
SetMFASecret(secret) == [users EXCEPT !.mfa_secret = secret]

\* service.SetupMFA: a new secret is generated and saved, whatever the
\* user's mfa_enabled is
SetupMFA ==
  /\ users.generated < MaxSecrets
  /\ users' = [SetMFASecret(users.generated + 1)
                 EXCEPT !.generated = users.generated + 1]
  /\ AuthFrame

\* service.EnableMFA up to the code check: the user is read, and the code is
\* validated against the secret that was read
EnableMFAValidate(p) ==
  \E code \in Codes :
    /\ users.validated[p] = NoSecret
    /\ users' =
         IF users.mfa_secret = NoSecret
           THEN [users EXCEPT !.enable_error = "MFA not set up"]
         ELSE IF ~TotpValidate(code, users.mfa_secret)
           THEN [users EXCEPT !.enable_error = "Invalid MFA code"]
         ELSE [users EXCEPT !.enable_error = "",
                            !.validated[p] = users.mfa_secret]
    /\ AuthFrame

\* repository.EnableMFA: UPDATE users SET mfa_enabled = true; the secret the
\* code was validated against goes to the history of confirmed secrets
EnableMFA(p) ==
  /\ users.validated[p] # NoSecret
  /\ users' = [users EXCEPT !.mfa_enabled = TRUE,
                            !.confirmed = @ \cup {users.validated[p]},
                            !.validated[p] = NoSecret]
  /\ AuthFrame

\* service.DisableMFA: UPDATE users SET mfa_enabled = false,
\* mfa_secret = NULL
DisableMFA ==
  /\ users' = [users EXCEPT !.mfa_enabled = FALSE,
                            !.mfa_secret = NoSecret]
  /\ AuthFrame

\* service.Login from the password check on, for an active user: the MFA
\* code is checked against the stored secret when MFA is enabled
Login ==
  \E passwordOk \in BOOLEAN, code \in Codes :
    /\ users' =
         [users EXCEPT !.login =
            IF ~passwordOk
              THEN [checked |-> NoSecret, error |-> "Invalid credentials"]
            ELSE IF ~users.mfa_enabled
              THEN [checked |-> NoSecret, error |-> ""]
            ELSE IF code = 0
              THEN [checked |-> NoSecret, error |-> "MFA code is required"]
            ELSE IF ~TotpValidate(code, users.mfa_secret)
              THEN [checked |-> users.mfa_secret,
                    error |-> "Invalid MFA code"]
            ELSE [checked |-> users.mfa_secret, error |-> ""]]
    /\ AuthFrame

IdleProc ==
  [pc |-> "idle", mode |-> "none", notification |-> NoNotification("none"),
   donation |-> NoDonation, currentBalance |-> 0, call |-> 0,
   next_status |-> ""]

Init ==
  /\ donations = <<>>
  /\ ledgers = <<>>
  /\ fraud_checks = <<>>
  /\ proc = [p \in Procs |-> IdleProc]
  /\ transitions = <<>>
  /\ calls = <<>>
  /\ delivered = <<>>
  /\ InitPure
  /\ InitProvider
  /\ InitKafka
  /\ InitLimiter
  /\ InitUsers

\* repository.CreateDonation: INSERT INTO donations ... RETURNING id
CreateDonation(req, status) ==
  donations' =
    Append(donations,
           [id |-> Len(donations) + 1,
            campaign_id |-> req.campaign_id,
            user_id |-> req.user_id,
            amount |-> req.amount,
            status |-> status,
            payment_gateway |-> req.payment_gateway,
            transaction_id |-> TxRef(Len(donations) + 1),
            donor_email |-> req.donor_email,
            paid_at |-> FALSE])

\* A caller of the repository inserts a donation
CallCreateDonation ==
  \E req \in DonationRequests :
    /\ Len(donations) < MaxDonations
    /\ CreateDonation(req, PaymentStatusPending)
    /\ UNCHANGED <<ledgers, fraud_checks, proc, transitions, calls, delivered,
                   pure, otherVars>>

\* A caller of the repository applies a status update
CallUpdateDonationStatus ==
  \E id \in DOMAIN donations, status \in PaymentStatus :
    /\ Len(transitions) < MaxUpdates
    /\ UpdateDonationStatus(id, status)
    /\ UNCHANGED <<ledgers, fraud_checks, proc, calls, delivered, pure,
                   otherVars>>

QueryCampaigns == {1, 2}
QueryLimits == {1, 2}
QueryOffsets == {0, 1}

\* A caller of the repository lists the donations of a campaign
CallGetDonationsByCampaign ==
  \E campaignID \in QueryCampaigns, limit \in QueryLimits,
     offset \in QueryOffsets :
    LET res == GetDonationsByCampaign(campaignID, limit, offset) IN
    /\ pure' = [NoCall EXCEPT !.op = "GetDonationsByCampaign",
                              !.campaign = campaignID, !.limit = limit,
                              !.offset = offset, !.rows = res.rows,
                              !.total = res.total]
    /\ UNCHANGED <<donations, ledgers, fraud_checks, proc, transitions, calls,
                   delivered, otherVars>>

(***************************************************************************)
(* LedgerManager.RecordDonation, one step per repository call              *)
(***************************************************************************)
totalAmount(donation) == donation.amount
gatewayFee(donation) ==
  calculateGatewayFee(donation.payment_gateway, donation.amount)
netAmount(donation) == totalAmount(donation) - gatewayFee(donation)

debitEntry(donation, currentBalance, call) ==
  [donation_id |-> donation.id, account_type |-> "debit",
   account_name |-> "cash_account", amount |-> totalAmount(donation),
   balance_before |-> currentBalance,
   balance_after |-> currentBalance + totalAmount(donation), call |-> call]

creditEntry_GrossAmount(donation, currentBalance, call) ==
  [donation_id |-> donation.id, account_type |-> "credit",
   account_name |-> "campaign_fund", amount |-> totalAmount(donation),
   balance_before |-> currentBalance,
   balance_after |-> currentBalance + totalAmount(donation), call |-> call]

creditEntry(donation, currentBalance, call) ==
  [donation_id |-> donation.id, account_type |-> "credit",
   account_name |-> "campaign_fund", amount |-> netAmount(donation),
   balance_before |-> currentBalance,
   balance_after |-> currentBalance + netAmount(donation), call |-> call]

\* the fee is booked on the campaign fund account
feeEntry_CampaignFund(donation, currentBalance, call) ==
  [donation_id |-> donation.id, account_type |-> "credit",
   account_name |-> "campaign_fund", amount |-> gatewayFee(donation),
   balance_before |-> currentBalance, balance_after |-> currentBalance,
   call |-> call]

feeEntry(donation, currentBalance, call) ==
  [donation_id |-> donation.id, account_type |-> "credit",
   account_name |-> "gateway_fee_expense", amount |-> gatewayFee(donation),
   balance_before |-> currentBalance, balance_after |-> currentBalance,
   call |-> call]

\* RecordDonation is entered by handler p for the donation it holds
EnterRecordDonation(p, mode, donation) ==
  /\ calls' = Append(calls, [donation_id |-> donation.id, result |-> "running"])
  /\ proc' = [proc EXCEPT ![p].pc = "balance", ![p].mode = mode,
                          ![p].donation = donation,
                          ![p].call = Len(calls) + 1]

\* RecordDonation returns nil
ReturnNil(p) ==
  /\ calls' = [calls EXCEPT ![proc[p].call].result = "ok"]
  /\ proc' = IF proc[p].mode = "orch"
             THEN [proc EXCEPT ![p].pc = "mark",
                               ![p].next_status = PaymentStatusSuccess]
             ELSE [proc EXCEPT ![p] = IdleProc]

\* A caller holding a donation row calls RecordDonation
CallRecordDonation(p) ==
  \E id \in DOMAIN donations :
    /\ proc[p].pc = "idle"
    /\ Len(calls) < MaxPosts
    /\ EnterRecordDonation(p, "direct", FindDonationByID(id))
    /\ UNCHANGED <<donations, ledgers, fraud_checks, transitions, delivered, pure,
                   otherVars>>

\* lines 28-32
ReadBalance(p) ==
  /\ proc[p].pc = "balance"
  /\ proc' = [proc EXCEPT
                ![p].pc = "debit",
                ![p].currentBalance =
                   GetCampaignBalance(proc[p].donation.campaign_id)]
  /\ UNCHANGED <<donations, ledgers, fraud_checks, transitions, calls,
                 delivered, pure, otherVars>>

\* lines 34-47
WriteDebit(p) ==
  /\ proc[p].pc = "debit"
  /\ CreateLedgerEntry(debitEntry(proc[p].donation, proc[p].currentBalance,
                                  proc[p].call))
  /\ proc' = [proc EXCEPT ![p].pc = "credit"]
  /\ UNCHANGED <<donations, fraud_checks, transitions, calls, delivered, pure,
                 otherVars>>

\* lines 49-62, and line 65 when there is no fee
WriteCredit(p) ==
  /\ proc[p].pc = "credit"
  /\ CreateLedgerEntry(creditEntry(proc[p].donation, proc[p].currentBalance,
                                   proc[p].call))
  /\ IF gatewayFee(proc[p].donation) > 0
     THEN /\ proc' = [proc EXCEPT ![p].pc = "fee"]
          /\ UNCHANGED calls
     ELSE ReturnNil(p)
  /\ UNCHANGED <<donations, fraud_checks, transitions, delivered, pure,
                 otherVars>>

\* lines 64-81
WriteFee(p) ==
  /\ proc[p].pc = "fee"
  /\ CreateLedgerEntry(feeEntry(proc[p].donation, proc[p].currentBalance,
                                proc[p].call))
  /\ ReturnNil(p)
  /\ UNCHANGED <<donations, fraud_checks, transitions, delivered, pure,
                 otherVars>>

\* A repository call of RecordDonation returns an error: RecordDonation
\* returns it at once (lines 30-32, 45-47, 60-62, 76-78)
StorageError(p) ==
  /\ proc[p].pc \in {"balance", "debit", "credit", "fee"}
  /\ calls' = [calls EXCEPT ![proc[p].call].result = "failed"]
  /\ proc' = [proc EXCEPT ![p] = IdleProc]
  /\ UNCHANGED <<donations, ledgers, fraud_checks, transitions, delivered,
                 pure, otherVars>>

RecordDonation(p) ==
  \/ ReadBalance(p)
  \/ WriteDebit(p)
  \/ WriteCredit(p)
  \/ WriteFee(p)

(***************************************************************************)
(* Donation orchestrator (spec 4.1), over the repository, the adapters,    *)
(* the fraud detector and the ledger manager.  One step per repository     *)
(* call: handlers suspend only at I/O boundaries.                          *)
(***************************************************************************)
\* CreateDonation of the orchestrator: the donation is stored as pending
AcceptDonation ==
  \E req \in DonationRequests :
    /\ Len(donations) < MaxOrders
    /\ CreateDonation(req, PaymentStatusPending)
    /\ UNCHANGED <<ledgers, fraud_checks, proc, transitions, calls, delivered,
                   pure, otherVars>>

\* CreateDonation of the orchestrator, after the insert: the gateway
\* transaction was opened and the donation moves to processing
OpenTransaction ==
  \E id \in DOMAIN donations :
    /\ donations[id].status = PaymentStatusPending
    /\ UpdateDonationStatus(id, PaymentStatusProcessing)
    /\ UNCHANGED <<ledgers, fraud_checks, proc, calls, delivered, pure,
                   otherVars>>

\* HandleNotification: verify the payload through the adapter
ReceiveNotification(p) ==
  \E gateway \in AdapterGateways :
    \E payload \in WebhookPayloads(gateway) :
      LET n == VerifyNotification(gateway, payload) IN
      /\ proc[p].pc = "idle"
      /\ Len(delivered) < MaxDeliveries
      /\ delivered' = Append(delivered, [OrderID |-> payload.order_id,
                                         Status |-> n.Status])
      /\ proc' = IF n.outcome = "notification"
                 THEN [proc EXCEPT ![p].pc = "find", ![p].mode = "orch",
                                   ![p].notification = n]
                 ELSE proc
      /\ UNCHANGED <<donations, ledgers, fraud_checks, transitions, calls, pure,
                     otherVars>>

\* HandleNotification: resolve the donation by transaction reference; an
\* unknown reference is dropped, a terminal donation short-circuits
ResolveDonation(p) ==
  LET d == FindDonationByTransactionID(proc[p].notification.OrderID) IN
  /\ proc[p].pc = "find"
  /\ proc' = IF d = NoDonation \/ d.status \in TerminalStatus
             THEN [proc EXCEPT ![p] = IdleProc]
             ELSE [proc EXCEPT ![p].pc = "fraud", ![p].donation = d]
  /\ UNCHANGED <<donations, ledgers, fraud_checks, transitions, calls,
                 delivered, pure, otherVars>>

\* HandleNotification: run the fraud screen, store its record, and branch on
\* the verdict and on the mapped status
RunFraudScreen(p) ==
  LET check == CheckTransaction(proc[p].donation)
      status == proc[p].notification.Status
  IN
  /\ proc[p].pc = "fraud"
  /\ CreateFraudCheck(check)
  /\ IF check.is_blocked
     THEN /\ proc' = [proc EXCEPT ![p].pc = "mark",
                                  ![p].next_status = PaymentStatusFailed]
          /\ UNCHANGED calls
     ELSE IF status = StatusSuccess
     THEN EnterRecordDonation(p, "orch", proc[p].donation)
     ELSE IF status \in {StatusFailed, StatusCancelled, StatusExpired}
     THEN /\ proc' = [proc EXCEPT ![p].pc = "mark", ![p].next_status = status]
          /\ UNCHANGED calls
     ELSE /\ proc' = [proc EXCEPT ![p] = IdleProc]
          /\ UNCHANGED calls
  /\ UNCHANGED <<donations, ledgers, transitions, delivered, pure,
                 otherVars>>

\* HandleNotification: apply the transition
Transition(p) ==
  /\ proc[p].pc = "mark"
  /\ UpdateDonationStatus(proc[p].donation.id, proc[p].next_status)
  /\ proc' = [proc EXCEPT ![p] = IdleProc]
  /\ UNCHANGED <<ledgers, fraud_checks, calls, delivered, pure, otherVars>>

HandleNotification(p) ==
  \/ ResolveDonation(p)
  \/ RunFraudScreen(p)
  \/ RecordDonation(p)
  \/ Transition(p)

(***************************************************************************)
(* Specifications                                                          *)
(***************************************************************************)
\* The adapters and the fee function on enumerated inputs
NextAdapter ==
  \/ CallVerifyNotification
  \/ CallCalculateGatewayFee
  \/ CallCheckTransaction

SpecAdapter == Init /\ [][NextAdapter]_vars

\* Callers of the repository applying status updates
NextStatus ==
  \/ CallCreateDonation
  \/ CallUpdateDonationStatus

SpecStatus == Init /\ [][NextStatus]_vars

\* Callers of the ledger manager, running concurrently, with storage errors
NextLedger ==
  \/ CallCreateDonation
  \/ \E p \in Procs : CallRecordDonation(p)
  \/ \E p \in Procs : RecordDonation(p)
  \/ \E p \in Procs : StorageError(p)

SpecLedger == Init /\ [][NextLedger]_vars

\* Notification handlers running one after the other
NextSeq ==
  \/ AcceptDonation
  \/ OpenTransaction
  \/ ReceiveNotification("h1")
  \/ HandleNotification("h1")

SpecSeq == Init /\ [][NextSeq]_vars

\* Notification handlers running concurrently
NextConc ==
  \/ AcceptDonation
  \/ OpenTransaction
  \/ \E p \in Procs : ReceiveNotification(p)
  \/ \E p \in Procs : HandleNotification(p)

SpecConc == Init /\ [][NextConc]_vars

\* Notification handlers running one after the other, with storage errors
\* during the ledger posting
NextRetry ==
  \/ AcceptDonation
  \/ OpenTransaction
  \/ ReceiveNotification("h1")
  \/ HandleNotification("h1")
  \/ StorageError("h1")

SpecRetry == Init /\ [][NextRetry]_vars

\* Callers of the repository updating statuses and listing by campaign
NextQuery ==
  \/ CallCreateDonation
  \/ CallUpdateDonationStatus
  \/ CallGetDonationsByCampaign

SpecQuery == Init /\ [][NextQuery]_vars

\* One caller of the ledger manager posting donations one after the other
NextPosting ==
  \/ CallCreateDonation
  \/ CallRecordDonation("h1")
  \/ RecordDonation("h1")

SpecPosting == Init /\ [][NextPosting]_vars

\* The Kafka consumer loop
NextKafka ==
  \/ ConsumeClaimOk
  \/ ConsumeClaimError
  \/ Consume

SpecKafka == Init /\ [][NextKafka]_vars

\* Concurrent callers of the rate limiter
NextLimiter ==
  \/ \E p \in Procs : Allow(p)
  \/ \E p \in Procs : AllowN(p)
  \/ \E p \in Procs : Expire(p)
  \/ \E p \in Procs : ExpireFails(p)
  \/ WindowElapses

SpecLimiter == Init /\ [][NextLimiter]_vars

\* Callers of the adapters' transaction operations, and the provider
NextGateway ==
  \/ CallCreateTransaction
  \/ ProviderAdvances
  \/ CallCancelTransaction
  \/ CallGetTransaction

SpecGateway == Init /\ [][NextGateway]_vars

(***************************************************************************)
(* Properties                                                              *)
(***************************************************************************)
RECURSIVE SumOver(_)
SumOver(S) ==
  IF S = {} THEN 0
  ELSE LET i == CHOOSE j \in S : TRUE IN ledgers[i].amount + SumOver(S \ {i})

EntriesOfCall(k) == {i \in DOMAIN ledgers : ledgers[i].call = k}
DebitsOfCall(k) == {i \in EntriesOfCall(k) : ledgers[i].account_type = "debit"}
CreditsOfCall(k) == {i \in EntriesOfCall(k) : ledgers[i].account_type = "credit"}
OkCalls == {k \in DOMAIN calls : calls[k].result = "ok"}

\* C1: for every donation posted by RecordDonation (a call that returned
\* nil), the debit amounts it wrote sum to the credit amounts it wrote, with
\* or without the gateway-fee entry.
C1_DoubleEntryBalanced ==
  \A k \in OkCalls : SumOver(DebitsOfCall(k)) = SumOver(CreditsOfCall(k))

\* C1 witness: one posting with a fee entry and one without have completed.
C1_Witness ==
  \E k1, k2 \in OkCalls :
    /\ Cardinality(EntriesOfCall(k1)) = 3
    /\ Cardinality(EntriesOfCall(k2)) = 2
    /\ SumOver(DebitsOfCall(k1)) > 0

CampaignFundCredits(campaignID) ==
  {i \in DOMAIN ledgers :
     /\ ledgers[i].account_name = "campaign_fund"
     /\ donations[ledgers[i].donation_id].campaign_id = campaignID}

Campaigns == {donations[id].campaign_id : id \in DOMAIN donations}

\* C2: after any sequence of successful postings, the balance read by
\* GetCampaignBalance equals the sum of netAmount over the campaign's
\* postings (the sum of its campaign_fund credit entries).
C2_BalanceIsNetSum ==
  (/\ \A p \in Procs : proc[p].pc = "idle"
   /\ OkCalls = DOMAIN calls)
  => \A c \in Campaigns : GetCampaignBalance(c) = SumOver(CampaignFundCredits(c))

\* C5: once a donation is in success, failed, cancelled, expired or refunded,
\* no step changes its status, except success -> refunded.
C5_TerminalIsFinal ==
  [][\A id \in DOMAIN donations :
       donations[id].status \in TerminalStatus
       => \/ donations'[id].status = donations[id].status
          \/ /\ donations[id].status = PaymentStatusSuccess
             /\ donations'[id].status = PaymentStatusRefunded]_vars

\* C6: ledger posting is all-or-nothing: a RecordDonation call that failed
\* leaves none of its entries in the ledger.
C6_AllOrNothing ==
  \A k \in DOMAIN calls : calls[k].result = "failed" => EntriesOfCall(k) = {}

(***************************************************************************)
(* Properties of the notification handlers                                 *)
(***************************************************************************)
TerminalTransitions(d) ==
  {i \in DOMAIN transitions :
     transitions[i].id = d /\ transitions[i].to \in TerminalStatus}
SuccessTransitions(d) ==
  {i \in DOMAIN transitions :
     transitions[i].id = d /\ transitions[i].to = PaymentStatusSuccess}
PostingsOf(d) == {k \in DOMAIN calls : calls[k].donation_id = d}
EntriesOf(d) == {i \in DOMAIN ledgers : ledgers[i].donation_id = d}
FraudChecksOf(d) ==
  {i \in DOMAIN fraud_checks : fraud_checks[i].donation_id = d}
ExpectedEntries(d) == IF gatewayFee(donations[d]) > 0 THEN 3 ELSE 2

\* The same terminal notification for donation d was delivered twice, one
\* delivery after the other, both deliveries are finished and d is terminal
DeliveredTwice(d) ==
  /\ proc["h1"].pc = "idle"
  /\ Len(delivered) = 2
  /\ delivered[1] = delivered[2]
  /\ delivered[1].OrderID = donations[d].transaction_id
  /\ delivered[1].Status \in TerminalStatus
  /\ donations[d].status \in TerminalStatus

C4_ConcurrentIdempotence ==
  (\A p \in Procs : proc[p].pc = "idle") =>
    \A d \in DOMAIN donations :
      /\ Cardinality(SuccessTransitions(d)) <= 1
      /\ Cardinality(EntriesOf(d)) <= ExpectedEntries(d)

(***************************************************************************)
(* Properties of the adapters and of the fee function                      *)
(***************************************************************************)
Table(gateway) ==
  IF gateway = PaymentGatewayMidtrans THEN MidtransTable ELSE XenditTable

SuccessCodes(gateway) ==
  IF gateway = PaymentGatewayMidtrans THEN {"capture", "settlement"}
  ELSE {"PAID", "SETTLED"}

\* C7: VerifyNotification returns a verification error, and no notification,
\* for every payload whose signature is not valid; such a payload never
\* yields a notification with status success.
C7_RejectsUnverified ==
  (pure.op = "VerifyNotification" /\ pure.payload.signature # "valid")
  => /\ pure.result.outcome = "error"
     /\ pure.result.Status # StatusSuccess

\* C8: every provider status that is not in the adapter's mapping table is
\* mapped to pending.
C8_UnknownMapsToPending ==
  (/\ pure.op = "VerifyNotification"
   /\ pure.result.outcome = "notification"
   /\ pure.payload.status \notin Table(pure.gateway))
  => pure.result.Status = StatusPending

\* C9: success is produced only for the provider's explicit success codes.
C9_SuccessOnlyForSuccessCodes ==
  (pure.op = "VerifyNotification" /\ pure.result.Status = StatusSuccess)
  => pure.payload.status \in SuccessCodes(pure.gateway)

\* C9 witness: Midtrans settlement was mapped to success.
C9_Witness ==
  /\ pure.op = "VerifyNotification"
  /\ pure.gateway = PaymentGatewayMidtrans
  /\ pure.payload.status = "settlement"
  /\ pure.result.Status = StatusSuccess

\* C10: the fee is floor(amount * rate) + flat in integers and the net is
\* amount - fee: Midtrans 2% + 2000 (1,000,000 gives 22,000 and 978,000),
\* Xendit 2.9% + 2000.
C10_FeeLaw ==
  pure.op = "calculateGatewayFee" =>
    LET a == pure.amount
        pct == pure.gatewayFee - 2000
    IN /\ pure.netAmount = a - pure.gatewayFee
       /\ pure.gateway = PaymentGatewayMidtrans =>
            /\ pct * 100 <= a * 2
            /\ a * 2 < (pct + 1) * 100
            /\ a = 1000000 => pure.gatewayFee = 22000 /\ pure.netAmount = 978000
       /\ pure.gateway = PaymentGatewayXendit =>
            /\ pct * 1000 <= a * 29
            /\ a * 29 < (pct + 1) * 1000

\* C10 witness: the fee of 1,000,000 through Midtrans was computed.
C10_Witness ==
  /\ pure.op = "calculateGatewayFee"
  /\ pure.gateway = PaymentGatewayMidtrans
  /\ pure.amount = 1000000
  /\ pure.gatewayFee = 22000

(***************************************************************************)
(* Properties of the fraud detector                                        *)
(***************************************************************************)
Scores == 0..100

ThresholdLaw(score, level, blocked) ==
  /\ score >= 70 => level = "high" /\ blocked
  /\ (40 <= score /\ score < 70) => level = "medium" /\ ~blocked
  /\ score < 40 => level = "low" /\ ~blocked
  /\ blocked <=> level = "high"

\* C11: every risk score gives its level and block decision by the
\* thresholds: >= 70 high and blocked, 40..69 medium and not blocked, below
\* 40 low and not blocked; blocked exactly when high.  Stated of the check
\* CheckTransaction returned and of the risk-level branch on every score.
C11_Thresholds ==
  /\ pure.op = "CheckTransaction" =>
       ThresholdLaw(pure.check.risk_score, pure.check.risk_level,
                    pure.check.is_blocked)
  /\ \A score \in Scores :
       ThresholdLaw(score, riskVerdict(score).risk_level,
                    riskVerdict(score).is_blocked)

\* C11 witness: CheckTransaction returned a medium-risk check, not blocked.
C11_Witness ==
  /\ pure.op = "CheckTransaction"
  /\ pure.check.risk_score = 50
  /\ pure.check.risk_level = "medium"
  /\ ~pure.check.is_blocked

\* C12: a donation of 150,000,000 with a disposable-looking email is
\* assessed at score 75, level high, blocked; a score of 45 is medium and
\* not blocked.
C12_LargeDisposableIsBlocked ==
  /\ (/\ pure.op = "CheckTransaction"
      /\ pure.amount = 150000000
      /\ pure.email = EmailDisposable)
     => /\ pure.check.risk_score = 75
        /\ pure.check.risk_level = "high"
        /\ pure.check.is_blocked
  /\ riskVerdict(45).risk_level = "medium"
  /\ ~riskVerdict(45).is_blocked

(***************************************************************************)
(* Properties of the fraud screen inside the notification handlers         *)
(***************************************************************************)
\* C13: the fraud screen runs once per donation and before its ledger
\* entries: after any sequence of notifications a donation has at most one
\* fraud check record, and a donation with a ledger entry has one.
C13_FraudScreenOnce ==
  \A d \in DOMAIN donations :
    /\ Cardinality(FraudChecksOf(d)) <= 1
    /\ EntriesOf(d) # {} => FraudChecksOf(d) # {}

(***************************************************************************)
(* Properties of the handlers under storage errors                         *)
(***************************************************************************)
FailedPostingsOf(d) == {k \in PostingsOf(d) : calls[k].result = "failed"}
OkPostingsOf(d) == {k \in PostingsOf(d) : calls[k].result = "ok"}

\* C15: when the ledger posting of a donation fails, the failed posting
\* leaves no entry, the donation is not marked success by it, and a later
\* retry posts the full set exactly once (the donation never holds more
\* than one set of entries).
C15_FailedPostingLeavesNothing ==
  \A d \in DOMAIN donations :
    FailedPostingsOf(d) # {} =>
      /\ \A k \in FailedPostingsOf(d) : EntriesOfCall(k) = {}
      /\ Cardinality(EntriesOf(d)) <= ExpectedEntries(d)
      /\ OkPostingsOf(d) = {} => donations[d].status # PaymentStatusSuccess

\* C16: whenever no handler is in the middle of a notification, a donation
\* in success holds its full set of ledger entries, and a donation with any
\* ledger entry is in success or refunded.
C16_EntriesIffSuccess ==
  (\A p \in Procs : proc[p].pc = "idle") =>
    \A d \in DOMAIN donations :
      /\ donations[d].status = PaymentStatusSuccess
           => Cardinality(EntriesOf(d)) = ExpectedEntries(d)
      /\ EntriesOf(d) # {}
           => donations[d].status \in {PaymentStatusSuccess,
                                       PaymentStatusRefunded}

(***************************************************************************)
(* Properties of concurrent postings                                       *)
(***************************************************************************)
CampaignOfCall(k) == donations[calls[k].donation_id].campaign_id
BalanceBeforeOf(k) == {ledgers[i].balance_before : i \in EntriesOfCall(k)}

\* What a complete posting of donation d adds to the balance query
PostingEffect(d) ==
  netAmount(donations[d])
  + (IF gatewayFee(donations[d]) > 0 THEN gatewayFee(donations[d]) ELSE 0)
  - totalAmount(donations[d])

RECURSIVE SumEffects(_)
SumEffects(S) ==
  IF S = {} THEN 0
  ELSE LET k == CHOOSE j \in S : TRUE
       IN PostingEffect(calls[k].donation_id) + SumEffects(S \ {k})

\* The postings of other donations of the campaign of posting k
OtherPostings(k) ==
  {j \in DOMAIN calls :
     /\ calls[j].donation_id # calls[k].donation_id
     /\ CampaignOfCall(j) = CampaignOfCall(k)}

\* The balances made of whole postings of the other donations
WholeSnapshots(k) == {SumEffects(S) : S \in SUBSET OtherPostings(k)}

\* C17: postings of two donations of one campaign serialize: the
\* balance_before each records reflects none or all of the other's entries,
\* and the two never record the same balance_before.
C17_PostsSerialize ==
  (\A k \in DOMAIN calls : calls[k].result # "failed") =>
    \A k1 \in DOMAIN calls :
      /\ OtherPostings(k1) # {} => BalanceBeforeOf(k1) \subseteq WholeSnapshots(k1)
      /\ \A k2 \in OtherPostings(k1) :
           (k1 \in OkCalls /\ k2 \in OkCalls)
           => BalanceBeforeOf(k1) \cap BalanceBeforeOf(k2) = {}

(***************************************************************************)
(* Properties of the donation record                                       *)
(***************************************************************************)
Edges ==
  {<<"pending", "processing">>, <<"processing", "success">>,
   <<"processing", "failed">>, <<"processing", "cancelled">>,
   <<"processing", "expired">>, <<"success", "refunded">>}

\* C18: a donation's status changes only along pending -> processing,
\* processing -> success | failed | cancelled | expired and
\* success -> refunded, and every status an adapter reports is a status of
\* the donation state machine.
C18_OnlyStateMachineEdges ==
  [][\A id \in DOMAIN donations :
       donations'[id].status # donations[id].status
       => /\ <<donations[id].status, donations'[id].status>> \in Edges
          /\ AdapterStatus \subseteq DomainPaymentStatus]_vars

\* C19: paid-at is set exactly on success: every donation in success has
\* it set, no donation in a status other than success or refunded has it
\* set, and a notification carries a paid-at only with status success.
C19_PaidAtOnSuccess ==
  /\ \A id \in DOMAIN donations :
       /\ donations[id].status = PaymentStatusSuccess => donations[id].paid_at
       /\ donations[id].paid_at
            => donations[id].status \in {PaymentStatusSuccess,
                                         PaymentStatusRefunded}
  /\ (pure.op = "VerifyNotification" /\ pure.result.PaidAt)
       => pure.result.Status = StatusSuccess

UniqueTransactionID(rows) ==
  \A i, j \in DOMAIN rows :
    rows[i].transaction_id = rows[j].transaction_id => i = j

NotSuccess ==
  {PaymentStatusPending, PaymentStatusProcessing, PaymentStatusFailed,
   PaymentStatusCancelled, StatusExpired, PaymentStatusRefunded}

RowIds(rows) == {rows[i].id : i \in DOMAIN rows}

\* C21: a listing by campaign returns only donations of that campaign in
\* status success and its total counts only those: a donation that is
\* pending, processing, failed, cancelled, expired or refunded when the
\* listing runs is neither listed nor counted.
C21_ListsOnlySuccess ==
  [][(pure'.op = "GetDonationsByCampaign" /\ pure' # pure) =>
       /\ \A i \in DOMAIN pure'.rows :
            /\ pure'.rows[i].campaign_id = pure'.campaign
            /\ pure'.rows[i].status = PaymentStatusSuccess
       /\ \A id \in DOMAIN donations :
            donations[id].status \in NotSuccess => id \notin RowIds(pure'.rows)
       /\ pure'.total =
            Cardinality({id \in DOMAIN donations :
                           donations[id].campaign_id = pure'.campaign}
                        \ {id \in DOMAIN donations :
                             donations[id].status \in NotSuccess})]_vars

\* C21 witness: a listing returned one success donation of a campaign that
\* also holds a donation not in success.
C21_Witness ==
  /\ pure.op = "GetDonationsByCampaign"
  /\ Len(pure.rows) = 1
  /\ pure.total = 1
  /\ \E id \in DOMAIN donations :
       /\ donations[id].campaign_id = pure.campaign
       /\ donations[id].status \in NotSuccess
       /\ id \notin RowIds(pure.rows)

KnownRefs == {donations[id].transaction_id : id \in DOMAIN donations}

LedgerOfCall(k) == SelectSeq(ledgers, LAMBDA e : e.call = k)

IsEntry(e, type, name, amount) ==
  /\ e.account_type = type
  /\ e.account_name = name
  /\ e.amount = amount

FlagSet(flags) == {flags[i] : i \in DOMAIN flags}

\* C25: the risk score is the sum of the weights of the triggered rules:
\* 30 for an amount strictly above 100,000,000, 20 for a suspicious email,
\* 25 for the velocity rule; the flags are exactly the triggered rules and
\* the score is within 0..100.
C25_ScoreIsSumOfWeights ==
  pure.op = "CheckTransaction" =>
    LET large == pure.amount > 100000000
        email == pure.email \in {EmailTemp, EmailDisposable}
    IN /\ pure.check.risk_score =
            (IF large THEN 30 ELSE 0) + (IF email THEN 20 ELSE 0)
            + (IF pure.velocity THEN 25 ELSE 0)
       /\ FlagSet(pure.check.flags) =
            (IF large THEN {"high_amount"} ELSE {})
            \cup (IF email THEN {"suspicious_email"} ELSE {})
            \cup (IF pure.velocity THEN {"high_velocity"} ELSE {})
       /\ Len(pure.check.flags) = Cardinality(FlagSet(pure.check.flags))
       /\ pure.check.risk_score \in 0..100

\* C26: for every positive amount and every gateway the fee does not
\* exceed the amount, so the net amount credited to campaign_fund is not
\* negative.
C26_FeeWithinAmount ==
  (pure.op = "calculateGatewayFee" /\ pure.amount > 0)
  => /\ pure.gatewayFee <= pure.amount
     /\ pure.netAmount >= 0

(***************************************************************************)
(* Properties of the balance snapshots                                     *)
(***************************************************************************)
\* The campaign_fund entry of posting k
FundEntries(k) ==
  SelectSeq(LedgerOfCall(k), LAMBDA e : e.account_name = "campaign_fund")

\* C27: with postings made one after the other, the campaign_fund entry of
\* a donation records as balance_before the balance_after of the
\* campaign_fund entry of the previous donation posted to that campaign,
\* and its balance_after is its balance_before plus the net amount.
C27_SnapshotsChain ==
  \A k \in OkCalls :
    /\ FundEntries(k)[1].balance_after =
         FundEntries(k)[1].balance_before
         + netAmount(donations[calls[k].donation_id])
    /\ \A j \in OkCalls :
         (/\ j < k
          /\ CampaignOfCall(j) = CampaignOfCall(k)
          /\ calls[j].donation_id # calls[k].donation_id
          /\ ~\E i \in OkCalls :
                j < i /\ i < k /\ CampaignOfCall(i) = CampaignOfCall(k))
         => FundEntries(k)[1].balance_before = FundEntries(j)[1].balance_after

(***************************************************************************)
(* Properties of the Kafka consumer                                        *)
(***************************************************************************)
\* C28: the committed position of the partition never advances past a
\* message whose handler has not returned nil: every offset below the
\* marked offset was handled successfully.
C28_NoCommitPastFailure ==
  \A offset \in 0..(kafka.marked - 1) : offset \in kafka.handled

(***************************************************************************)
(* Properties of the rate limiter                                          *)
(***************************************************************************)
\* C29: every counter created by Allow or AllowN carries an expiry of one
\* window: once the callers that created it have returned, an existing
\* counter has a time to live (so it is dropped when the window elapses).
C29_CountersExpire ==
  \A key \in LimiterKeys :
    (/\ limiter.count[key] > 0
     /\ \A p \in Procs :
          ~(limiter.pc[p] = "expire" /\ limiter.key[p] = key))
    => limiter.expires[key]


NextAuth ==
  \/ SetupMFA
  \/ \E p \in Procs : EnableMFAValidate(p)
  \/ \E p \in Procs : EnableMFA(p)
  \/ DisableMFA
  \/ Login

SpecAuth == Init /\ [][NextAuth]_vars

\* C30: whenever the user's MFA is enabled the stored secret is one that a
\* successful EnableMFA validated a code against, and the secret a Login
\* checks a code against is such a confirmed secret (never one that
\* SetupMFA stored and no EnableMFA confirmed)
C30_LoginChecksConfirmedSecret ==
  /\ users.mfa_enabled => users.mfa_secret \in users.confirmed
  /\ users.login.checked # NoSecret
       => users.login.checked \in users.confirmed

====
